---- MODULE Spec2Model ----
(***************************************************************************)
(* BertInferenceModel (src/models_hf/src/bert.rs): the embedding store     *)
(* built by load, the similarity ranker score_vector_similarity, and the   *)
(* encoding pipeline (tokenize, forward, max pooling, L2 normalization)    *)
(* behind infer_sentence_embedding and create_embeddings.                  *)
(*                                                                         *)
(* A tensor is a record [shape, v]: shape is the tuple of its dimensions   *)
(* and v its nested tuple of elements.  An f32 element of the store or of  *)
(* a query is a record [nan, x]: a number x, or NaN.  Indices are 1-based  *)
(* inside the model and 0-based (as in the code) in every ScoreEntry.      *)
(***************************************************************************)
EXTENDS Integers, Sequences, FiniteSets

\* ------------------------------------------------------------------ bounds
\* Hidden dimension of the store rows and of the encoder output (384 in the
\* deployed model, bert.rs:8).
Hidden == 2
\* Most rows a store file holds.
MaxRows == 3

\* ----------------------------------------------------------------- scalars
F(n) == [nan |-> FALSE, x |-> n]
NaN == [nan |-> TRUE, x |-> 0]

\* f32 multiplication and addition: NaN propagates.
MulS(a, b) == IF a.nan \/ b.nan THEN NaN ELSE F(a.x * b.x)
AddS(a, b) == IF a.nan \/ b.nan THEN NaN ELSE F(a.x + b.x)

\* f32::partial_cmp(a, b) == Some(Less); None (not comparable) when either is NaN.
Comparable(a, b) == ~a.nan /\ ~b.nan
LessS(a, b) == Comparable(a, b) /\ a.x < b.x

Min(a, b) == IF a < b THEN a ELSE b

\* ----------------------------------------------------------------- tensors
Rank(t) == Len(t.shape)

\* The elements of a tensor of rank <= 2 in row-major order.
RECURSIVE Concat(_)
Concat(rows) == IF rows = <<>> THEN <<>> ELSE Head(rows) \o Concat(Tail(rows))
Flat(t) ==
  CASE Rank(t) = 0 -> <<t.v>>
    [] Rank(t) = 1 -> t.v
    [] OTHER -> Concat(t.v)

\* Tensor::get(i): the i-th slice along dimension 0.
Get(t, i) == [shape |-> Tail(t.shape), v |-> t.v[i]]
\* Tensor::unsqueeze(0).
Unsqueeze0(t) == [shape |-> <<1>> \o t.shape, v |-> <<t.v>>]

RECURSIVE SumS(_)
SumS(xs) == IF xs = <<>> THEN F(0) ELSE AddS(Head(xs), SumS(Tail(xs)))

Ok(val) == [ok |-> TRUE, err |-> "", val |-> val]
Err(kind) == [ok |-> FALSE, err |-> kind, val |-> <<>>]

\* A multiplication that broadcasts the right operand over the left one.
TensorMul_Broadcast(a, b) ==
  LET fa == Flat(a)
      fb == Flat(b)
  IN Ok([i \in 1..Len(fa) |-> MulS(fa[i], fb[((i - 1) % Len(fb)) + 1])])

\* `&cur_vec * &vector`: candle's element-wise Mul takes operands of one shape
\* and fails with a shape mismatch otherwise (it does not broadcast).  The value
\* is the row-major tuple of products.
TensorMul(a, b) ==
  IF a.shape # b.shape
    THEN Err("ShapeError")
    ELSE Ok([i \in 1..Len(Flat(a)) |-> MulS(Flat(a)[i], Flat(b)[i])])

\* `(&cur_vec * &vector)?.sum_all()?.to_scalar::<f32>()?` for store row i.
RowScore(emb, vector, i) ==
  LET cur_vec == Unsqueeze0(Get(emb, i))
      prod == TensorMul(cur_vec, vector)
  IN IF prod.ok THEN Ok(SumS(prod.val)) ELSE prod

\* ------------------------------------------------------------------ ranker
\* A ScoreEntry is <<index, score>>.
\* The comparator of sort_by: `b.1.partial_cmp(&a.1)` is Less, so a sorts
\* before b, when b's score is below a's.
ComesBefore(a, b) == LessS(b[2], a[2])

\* An insertion that puts x in front of the entries it ties with.
RECURSIVE InsertSorted_BeforeTies(_, _)
InsertSorted_BeforeTies(sorted, x) ==
  IF sorted = <<>> THEN <<x>>
  ELSE IF ~ComesBefore(Head(sorted), x) THEN <<x>> \o sorted
  ELSE <<Head(sorted)>> \o InsertSorted_BeforeTies(Tail(sorted), x)

\* slice::sort_by is a stable sort: x goes behind every entry that does not
\* sort after it, so entries that tie keep their order.
RECURSIVE InsertSorted(_, _)
InsertSorted(sorted, x) ==
  IF sorted = <<>> THEN <<x>>
  ELSE IF ComesBefore(x, Head(sorted)) THEN <<x>> \o sorted
  ELSE <<Head(sorted)>> \o InsertSorted(Tail(sorted), x)

RECURSIVE SortBy(_)
SortBy(s) ==
  IF s = <<>> THEN <<>>
  ELSE InsertSorted(SortBy(SubSeq(s, 1, Len(s) - 1)), s[Len(s)])

\* `.unwrap()` on partial_cmp panics when a compared score is NaN.  sort_by
\* returns at once for fewer than two entries; otherwise every entry takes
\* part in at least one comparison.
SortPanics(s) == Len(s) >= 2 /\ \E i \in 1..Len(s) : s[i][2].nan

\* A truncation that keeps one entry too many.
Truncate_OffByOne(s, k) == SubSeq(s, 1, Min(k + 1, Len(s)))

\* Vec::truncate(top_k).
Truncate(s, k) == SubSeq(s, 1, Min(k, Len(s)))

Stage(run, name) == [run EXCEPT !.stages = Append(@, name)]
NoRun ==
  [status |-> "none", err |-> "", failed |-> "", stages |-> <<>>, fwd |-> <<>>,
   pooled |-> <<>>, value |-> <<>>]
Fail(run, kind) ==
  [run EXCEPT !.status = "err", !.err = kind, !.failed = run.stages[Len(run.stages)]]
Panic(run) ==
  [run EXCEPT !.status = "panic", !.err = "panic", !.failed = run.stages[Len(run.stages)]]
Return(run, val) == [run EXCEPT !.status = "ok", !.value = val]

\* score_vector_similarity(&self, vector, top_k).
ScoreRun(emb, vector, top_k) ==
  LET r0 == Stage(NoRun, "dim")
  IN IF Rank(emb) = 0 THEN Fail(r0, "ShapeError")
     ELSE
       LET N == emb.shape[1]
           r1 == Stage(r0, "score")
           rows == [i \in 1..N |-> RowScore(emb, vector, i)]
       IN IF \E i \in 1..N : ~rows[i].ok THEN Fail(r1, "ShapeError")
          ELSE
            LET scores == [i \in 1..N |-> <<i - 1, rows[i].val>>]
                r2 == Stage(r1, "sort")
            IN IF SortPanics(scores) THEN Panic(r2)
               ELSE Return(Stage(r2, "truncate"), Truncate(SortBy(scores), top_k))

\* ------------------------------------------------------------------- store
\* Row with `val` at position p and zeros elsewhere.
UnitRow(p, val) == [h \in 1..Hidden |-> IF h = p THEN F(val) ELSE F(0)]
NaNRow == [h \in 1..Hidden |-> NaN]
\* Rows as create_embeddings writes them: unit rows, and the all-NaN row that
\* l2_normalize makes of a zero row.
StoreRows == {UnitRow(1, 1), UnitRow(2, 1), UnitRow(1, -1), NaNRow}

Matrix(rows) == [shape |-> <<Len(rows), Hidden>>, v |-> rows]
SeqsUpTo(S, n) == UNION {[1..k -> S] : k \in 0..n}

\* `Tensor::new(&[0.0], &device)`: the store when no file name is given.
Placeholder == [shape |-> <<1>>, v |-> <<F(0)>>]
\* What a store file may hold under the key: a (corpus_size, hidden) matrix,
\* corpus_size = 0 included, or a scalar.
StoreFiles == {Matrix(rows) : rows \in SeqsUpTo(StoreRows, MaxRows)}
                \cup {[shape |-> <<>>, v |-> F(1)]}

\* --------------------------------------------------------------- tokenizer
\* The tokenizer is an opaque, deterministic collaborator.  A sentence is its
\* tuple of words; word 0 stands for input the tokenizer rejects, word k > 0
\* has token id k + 2.
PAD == 0
CLS == 1
SEP == 2
\* Most words of a sentence, and most sentences of a batch.
MaxWords == 2
MaxBatch == 2
\* Longest token sequence the encoder's position table takes.
MaxPositions == 3

Sentences == {[i \in 1..n |-> i] : n \in 0..MaxWords} \cup {<<0>>}
Batches == SeqsUpTo(Sentences, MaxBatch)

\* `tokenizer.encode(sentence, true)`: the ids, special tokens added.
Encode(sentence) ==
  IF \E i \in 1..Len(sentence) : sentence[i] = 0
    THEN Err("UpstreamError")
    ELSE Ok(<<CLS>> \o [i \in 1..Len(sentence) |-> sentence[i] + 2] \o <<SEP>>)

RECURSIVE MaxLen(_)
MaxLen(seqs) ==
  IF seqs = <<>> THEN 0
  ELSE LET m == MaxLen(Tail(seqs))
       IN IF Len(Head(seqs)) > m THEN Len(Head(seqs)) ELSE m

PadTo(ids, n) == ids \o [i \in 1..(n - Len(ids)) |-> PAD]

\* `tokenizer.encode_batch(sentences, true)`: every sentence encoded as by
\* encode, then padded to the longest of the batch when the tokenizer file
\* configures padding.
EncodeBatch(tok, sentences) ==
  LET encs == [i \in 1..Len(sentences) |-> Encode(sentences[i])]
  IN IF \E i \in 1..Len(encs) : ~encs[i].ok THEN Err("UpstreamError")
     ELSE LET ids == [i \in 1..Len(encs) |-> encs[i].val]
          IN Ok(IF tok.pad THEN [i \in 1..Len(ids) |-> PadTo(ids[i], MaxLen(ids))]
                ELSE ids)

\* ----------------------------------------------------------------- encoder
\* `Tensor::new(ids, device)`: a rank-1 tensor.
Tensor1(ids) == [shape |-> <<Len(ids)>>, v |-> ids]

\* `Tensor::stack(&tensors, 0)`: needs at least one tensor, all of one shape.
Stack(ts) ==
  IF ts = <<>> THEN Err("ShapeError")
  ELSE IF \E i \in 1..Len(ts) : ts[i].shape # ts[1].shape THEN Err("ShapeError")
  ELSE Ok([shape |-> <<Len(ts)>> \o ts[1].shape, v |-> [i \in 1..Len(ts) |-> ts[i].v]])

\* `zeros_like` of a rank-2 tensor.
ZerosLike(t) ==
  [shape |-> t.shape, v |-> [b \in 1..t.shape[1] |-> [p \in 1..t.shape[2] |-> 0]]]

\* `self.model.forward(&token_ids, &token_type_ids)`: the encoder is an opaque,
\* deterministic collaborator from (batch, seq) ids to (batch, seq, hidden)
\* states.  It fails on a sequence longer than its position table; weights 0
\* stand for an encoder whose states are all zero.
Forward(weights, token_ids, token_type_ids) ==
  LET B == token_ids.shape[1]
      L == token_ids.shape[2]
  IN IF L > MaxPositions THEN Err("UpstreamError")
     ELSE Ok([shape |-> <<B, L, Hidden>>,
              v |-> [b \in 1..B |-> [p \in 1..L |-> [h \in 1..Hidden |->
                       weights * (token_ids.v[b][p] * h - p)
                         + token_type_ids.v[b][p]]]]])

\* ----------------------------------------------------------------- pooling
RECURSIVE MaxOf(_)
MaxOf(xs) ==
  IF Len(xs) = 1 THEN xs[1]
  ELSE LET m == MaxOf(Tail(xs)) IN IF Head(xs) > m THEN Head(xs) ELSE m

RECURSIVE SumOf(_)
SumOf(xs) == IF xs = <<>> THEN 0 ELSE Head(xs) + SumOf(Tail(xs))

\* apply_max_pooling: `embeddings.max(1)`, the maximum over the sequence axis,
\* here of the encoder's (batch, seq, hidden) output.
ApplyMaxPooling(e) ==
  IF Rank(e) < 2 \/ e.shape[2] = 0 THEN Err("ShapeError")
  ELSE Ok([shape |-> <<e.shape[1], e.shape[3]>>,
           v |-> [b \in 1..e.shape[1] |-> [h \in 1..e.shape[3] |->
                    MaxOf([p \in 1..e.shape[2] |-> e.v[b][p][h]])]]])

\* ----------------------------------------------------------- normalization
\* An element of a normalized embedding: n / sqrt(d2) with d2 > 0, kept exact,
\* or what f32 division by zero gives: NaN for 0/0, an infinity otherwise.
Quot(n, d2) ==
  IF d2 # 0 THEN [k |-> "num", n |-> n, d2 |-> d2]
  ELSE IF n = 0 THEN [k |-> "nan", n |-> 0, d2 |-> 0]
  ELSE [k |-> "inf", n |-> n, d2 |-> 0]

\* l2_normalize: `embeddings.broadcast_div(&embeddings.sqr()?.sum_keepdim(1)?.sqrt()?)`.
\* Each row is divided by the square root of the sum of its squares; nothing
\* looks at the divisor.
L2Normalize(e) ==
  IF Rank(e) < 2 THEN Err("ShapeError")
  ELSE
    LET sumsq == [b \in 1..e.shape[1] |->
                    SumOf([h \in 1..e.shape[2] |-> e.v[b][h] * e.v[b][h]])]
    IN Ok([shape |-> e.shape,
           v |-> [b \in 1..e.shape[1] |-> [h \in 1..e.shape[2] |->
                    Quot(e.v[b][h], sumsq[b])]]])

\* ---------------------------------------------------------------- pipeline
\* A run records the stages it entered, what the encoder was called with (fwd)
\* and what pooling handed to l2_normalize (pooled), each as a tuple of at most
\* one element.
Forwarding(run, token_ids, token_type_ids) ==
  [Stage(run, "forward") EXCEPT
     !.fwd = <<[token_ids |-> token_ids, token_type_ids |-> token_type_ids]>>]
Normalizing(run, pooled) == [Stage(run, "normalize") EXCEPT !.pooled = <<pooled>>]

\* infer_sentence_embedding(&self, sentence).
InferRun(tok, weights, sentence) ==
  LET r0 == Stage(NoRun, "tokenize")
      tokens == Encode(sentence)
  IN IF ~tokens.ok THEN Fail(r0, tokens.err)
     ELSE
       LET r1 == Stage(r0, "tensor")
           token_ids == Unsqueeze0(Tensor1(tokens.val))
           token_type_ids == ZerosLike(token_ids)
           r2 == Forwarding(r1, token_ids, token_type_ids)
           embeddings0 == Forward(weights, token_ids, token_type_ids)
       IN IF ~embeddings0.ok THEN Fail(r2, embeddings0.err)
          ELSE
            LET r3 == Stage(r2, "pool")
                embeddings1 == ApplyMaxPooling(embeddings0.val)
            IN IF ~embeddings1.ok THEN Fail(r3, embeddings1.err)
               ELSE
                 LET r4 == Normalizing(r3, embeddings1.val)
                     embeddings2 == L2Normalize(embeddings1.val)
                 IN IF ~embeddings2.ok THEN Fail(r4, embeddings2.err)
                    ELSE Return(r4, embeddings2.val)

\* `ones_like` of a rank-2 tensor.
OnesLike(t) ==
  [shape |-> t.shape, v |-> [b \in 1..t.shape[1] |-> [p \in 1..t.shape[2] |-> 1]]]

\* A batch path that hands the encoder a tensor of ones (an attention mask)
\* where the token type ids go.
CreateRun_OnesMask(tok, weights, sentences) ==
  LET r0 == Stage(NoRun, "tokenize")
      tokens == EncodeBatch(tok, sentences)
  IN IF ~tokens.ok THEN Fail(r0, tokens.err)
     ELSE
       LET r1 == Stage(r0, "tensor")
           stacked == Stack([i \in 1..Len(tokens.val) |-> Tensor1(tokens.val[i])])
       IN IF ~stacked.ok THEN Fail(r1, stacked.err)
          ELSE
            LET token_ids == stacked.val
                token_type_ids == OnesLike(token_ids)
                r2 == Forwarding(r1, token_ids, token_type_ids)
                embeddings0 == Forward(weights, token_ids, token_type_ids)
            IN IF ~embeddings0.ok THEN Fail(r2, embeddings0.err)
               ELSE
                 LET r3 == Stage(r2, "pool")
                     embeddings1 == ApplyMaxPooling(embeddings0.val)
                 IN IF ~embeddings1.ok THEN Fail(r3, embeddings1.err)
                    ELSE
                      LET r4 == Normalizing(r3, embeddings1.val)
                          embeddings2 == L2Normalize(embeddings1.val)
                      IN IF ~embeddings2.ok THEN Fail(r4, embeddings2.err)
                         ELSE Return(r4, embeddings2.val)

\* create_embeddings(&self, sentences).
CreateRun(tok, weights, sentences) ==
  LET r0 == Stage(NoRun, "tokenize")
      tokens == EncodeBatch(tok, sentences)
  IN IF ~tokens.ok THEN Fail(r0, tokens.err)
     ELSE
       LET r1 == Stage(r0, "tensor")
           stacked == Stack([i \in 1..Len(tokens.val) |-> Tensor1(tokens.val[i])])
       IN IF ~stacked.ok THEN Fail(r1, stacked.err)
          ELSE
            LET token_ids == stacked.val
                token_type_ids == ZerosLike(token_ids)
                r2 == Forwarding(r1, token_ids, token_type_ids)
                embeddings0 == Forward(weights, token_ids, token_type_ids)
            IN IF ~embeddings0.ok THEN Fail(r2, embeddings0.err)
               ELSE
                 LET r3 == Stage(r2, "pool")
                     embeddings1 == ApplyMaxPooling(embeddings0.val)
                 IN IF ~embeddings1.ok THEN Fail(r3, embeddings1.err)
                    ELSE
                      LET r4 == Normalizing(r3, embeddings1.val)
                          embeddings2 == L2Normalize(embeddings1.val)
                      IN IF ~embeddings2.ok THEN Fail(r4, embeddings2.err)
                         ELSE Return(r4, embeddings2.val)

\* -------------------------------------------------------------------- load
\* What the embeddings file name leads to, and where (if anywhere) the model
\* repository, its files or the weights fail.
NoTensor == [shape |-> <<0>>, v |-> <<>>]
StoreSources ==
  {[kind |-> k, tensor |-> NoTensor] : k \in {"empty_name", "no_file", "no_key"}}
    \cup {[kind |-> "file", tensor |-> t] : t \in StoreFiles}
Upstreams == {"ok", "hub", "config", "tokenizer", "model"}
Tokenizers == {[pad |-> p] : p \in BOOLEAN}
EncoderWeights == {0, 1}

\* load(model_name, revision, embeddings_filename, embeddings_key).  value is
\* the constructed object.
LoadRun(source, upstream, tok, weights) ==
  LET r0 == Stage(NoRun, "store")
  IN IF source.kind \in {"no_file", "no_key"} THEN Panic(r0)
     ELSE
       LET store == IF source.kind = "empty_name" THEN Placeholder ELSE source.tensor
           r1 == Stage(r0, "hub")
       IN IF upstream = "hub" THEN Fail(r1, "UpstreamError")
          ELSE IF upstream = "config" THEN Fail(Stage(r1, "config"), "UpstreamError")
          ELSE IF upstream = "tokenizer"
            THEN Fail(Stage(Stage(r1, "config"), "tokenizer"), "UpstreamError")
          ELSE IF upstream = "model"
            THEN Fail(Stage(Stage(Stage(r1, "config"), "tokenizer"), "model"),
                      "UpstreamError")
          ELSE Return(Stage(Stage(Stage(r1, "config"), "tokenizer"), "model"),
                      [embeddings |-> store, tokenizer |-> tok, model |-> weights])

\* ------------------------------------------------------------------- state
VARIABLES
  phase,       \* "init" | "ready" | "returned" | "failed" | "aborted"
  embeddings,  \* self.embeddings
  tokenizer,   \* self.tokenizer
  model,       \* self.model
  loaded,      \* history: the store as load returned it
  last         \* the call the caller holds the outcome of: operation, arguments, run

vars == <<phase, embeddings, tokenizer, model, loaded, last>>

\* Every method takes `&self` and keeps its intermediate tensors in locals, so
\* a call is one step: calls that overlap in time read the same object and
\* behave as the same calls made one after another.

Call(op, args, run) == [op |-> op, args |-> args, run |-> run]

Init ==
  /\ phase = "init"
  /\ embeddings = NoTensor
  /\ tokenizer = [pad |-> FALSE]
  /\ model = 0
  /\ loaded = NoTensor
  /\ last = Call("none", <<>>, NoRun)

Load ==
  /\ phase = "init"
  /\ \E source \in StoreSources, upstream \in Upstreams,
        tok \in Tokenizers, weights \in EncoderWeights :
       LET run == LoadRun(source, upstream, tok, weights)
       IN /\ last' = Call("load", [source |-> source.kind, upstream |-> upstream],
                          [run EXCEPT !.value = <<>>])
          /\ IF run.status = "ok"
               THEN /\ phase' = "ready"
                    /\ embeddings' = run.value.embeddings
                    /\ tokenizer' = run.value.tokenizer
                    /\ model' = run.value.model
                    /\ loaded' = run.value.embeddings
               ELSE /\ phase' = IF run.status = "panic" THEN "aborted" ELSE "failed"
                    /\ UNCHANGED <<embeddings, tokenizer, model, loaded>>

InferSentenceEmbedding ==
  /\ phase = "ready"
  /\ \E sentence \in Sentences :
       last' = Call("infer", [sentences |-> <<sentence>>],
                    InferRun(tokenizer, model, sentence))
  /\ phase' = "returned"
  /\ UNCHANGED <<embeddings, tokenizer, model, loaded>>

CreateEmbeddings ==
  /\ phase = "ready"
  /\ \E sentences \in Batches :
       last' = Call("create", [sentences |-> sentences],
                    CreateRun(tokenizer, model, sentences))
  /\ phase' = "returned"
  /\ UNCHANGED <<embeddings, tokenizer, model, loaded>>

\* Queries: rows of the store's shape (1, Hidden), a NaN query, and queries of
\* other shapes: (Hidden), (1, Hidden + 1), (1).
Queries ==
  {Unsqueeze0([shape |-> <<Hidden>>, v |-> r]) : r \in {UnitRow(1, 1), UnitRow(2, 1), NaNRow}}
    \cup {[shape |-> <<Hidden>>, v |-> UnitRow(1, 1)],
          [shape |-> <<1, Hidden + 1>>, v |-> <<UnitRow(1, 1) \o <<F(0)>>>>],
          [shape |-> <<1>>, v |-> <<F(1)>>]}

TopKs == 0..(MaxRows + 1)

\* A ranker that truncates the store in place.
ScoreVectorSimilarity_InPlace ==
  /\ phase = "ready"
  /\ \E vector \in Queries, top_k \in TopKs :
       LET run == ScoreRun(embeddings, vector, top_k)
       IN /\ last' = Call("score", [vector |-> vector, top_k |-> top_k], run)
          /\ phase' = IF run.status = "panic" THEN "aborted" ELSE "returned"
          /\ embeddings' =
               IF Rank(embeddings) = 0 THEN embeddings
               ELSE [shape |-> <<Min(top_k, embeddings.shape[1])>> \o Tail(embeddings.shape),
                     v |-> SubSeq(embeddings.v, 1, Min(top_k, embeddings.shape[1]))]
  /\ UNCHANGED <<tokenizer, model, loaded>>

\* score_vector_similarity takes `&self`: it reads the store and writes only
\* its own `scores`.
ScoreVectorSimilarity ==
  /\ phase = "ready"
  /\ \E vector \in Queries, top_k \in TopKs :
       LET run == ScoreRun(embeddings, vector, top_k)
       IN /\ last' = Call("score", [vector |-> vector, top_k |-> top_k], run)
          /\ phase' = IF run.status = "panic" THEN "aborted" ELSE "returned"
  /\ UNCHANGED <<embeddings, tokenizer, model, loaded>>

\* The caller is done with the outcome of its call (an embedding, a ranking or
\* an error) and drops it; the object serves the next call.
DropResult ==
  /\ phase = "returned"
  /\ phase' = "ready"
  /\ last' = Call("none", <<>>, NoRun)
  /\ UNCHANGED <<embeddings, tokenizer, model, loaded>>

Next ==
  \/ Load
  \/ InferSentenceEmbedding
  \/ CreateEmbeddings
  \/ ScoreVectorSimilarity
  \/ DropResult

Spec == Init /\ [][Next]_vars

\* ================================================================== claims
Run == last.run
Args == last.args
Scored == last.op = "score"
Encoded == last.op \in {"infer", "create"}

\* The store has rows (dimension 0), N of them.
HasRows == Rank(embeddings) >= 1
NRows == embeddings.shape[1]
\* The shape a query must have: (1,) + the shape of a store row.
RowShape == <<1>> \o Tail(embeddings.shape)
\* The dot product of store row i (1-based) and the query, element by element.
DotProduct(i, vector) ==
  LET r == Flat(Get(embeddings, i))
      q == Flat(vector)
  IN SumS([h \in 1..Len(r) |-> MulS(r[h], q[h])])
\* The query can be scored against every row, and no score is NaN.
Scorable(vector) ==
  /\ HasRows
  /\ NRows > 0 => vector.shape = RowShape
AllComparable(vector) == \A i \in 1..NRows : ~DotProduct(i, vector).nan

ExampleStore == Matrix(<<UnitRow(1, 1), UnitRow(2, 1), UnitRow(1, -1)>>)
ExampleQuery == Unsqueeze0([shape |-> <<Hidden>>, v |-> UnitRow(1, 1)])

HasNaN(t) == \E i \in 1..Len(Flat(t)) : Flat(t)[i].nan

\* C2: score_vector_similarity with top_k = 0 returns an empty sequence, a
\* success, whatever the store holds (NaN rows and the placeholder included),
\* for a query of the rows' shape that holds no NaN itself.
C2_TopKZeroIsEmpty ==
  (Scored /\ Args.top_k = 0 /\ Scorable(Args.vector) /\ ~HasNaN(Args.vector)) =>
    (Run.status = "ok" /\ Run.value = <<>>)

\* C3: when a score is NaN the call returns a NumericError to the caller: no
\* ranking is returned and the process does not end abnormally.  (Stated for
\* top_k > 0; top_k = 0 is the case of C2.)
C3_NaNReturnsNumericError ==
  (Scored /\ Args.top_k > 0 /\ Scorable(Args.vector) /\ ~AllComparable(Args.vector)) =>
    (Run.status = "err" /\ Run.err = "NumericError")

\* A row of a pooled (batch, hidden) tensor with zero L2 norm.
ZeroRow(row) == \A h \in 1..Len(row) : row[h] = 0
HasZeroRow(t) == \E b \in 1..t.shape[1] : ZeroRow(t.v[b])

\* C4: l2_normalize on an input with a row of zero norm fails with a
\* NumericError (or guards the divisor): it does not return that row as NaN.
C4_ZeroNormFails ==
  (Encoded /\ Run.pooled # <<>> /\ HasZeroRow(Run.pooled[1])) =>
    \/ Run.status = "err" /\ Run.err = "NumericError"
    \/ /\ Run.status = "ok"
       /\ \A b \in 1..Len(Run.value.v) : \A h \in 1..Len(Run.value.v[b]) :
            Run.value.v[b][h].k = "num"

\* C5 as stated: a query whose shape differs from that of the store rows fails
\* with a ShapeError and returns no ranking.
C5_MismatchFails ==
  (Scored /\ HasRows /\ Args.vector.shape # RowShape) =>
    (Run.status = "err" /\ Run.err = "ShapeError" /\ Run.value = <<>>)

\* C5, amended: against a store of at least one row, a query whose shape differs
\* from that of the store rows fails with a ShapeError in the scoring loop, before
\* the sort, and returns no ranking; against a store of no rows the call returns
\* the empty ranking whatever the query.
C5_MismatchFailsOnRows ==
  /\ (Scored /\ HasRows /\ NRows > 0 /\ Args.vector.shape # RowShape) =>
       /\ Run.status = "err" /\ Run.err = "ShapeError" /\ Run.value = <<>>
       /\ Run.stages = <<"dim", "score">>
  /\ (Scored /\ HasRows /\ NRows = 0) => (Run.status = "ok" /\ Run.value = <<>>)

\* A query of another shape was scored against a store with rows, and failed.
C5_Witness ==
  /\ Scored /\ HasRows /\ NRows > 0 /\ Args.vector.shape # RowShape
  /\ Len(Flat(Args.vector)) # Hidden
  /\ Run.status = "err"

\* C6: create_embeddings([s]) equals infer_sentence_embedding(s): the same
\* stages, one encoder call on the same (1, seq) token ids with all-zero token
\* type ids of that shape, the same pooled tensor and the same outcome, a
\* (1, hidden) embedding when it succeeds.
C6_BatchOfOneIsSingle ==
  /\ (last.op = "create" /\ Len(Args.sentences) = 1) =>
       Run = InferRun(tokenizer, model, Args.sentences[1])
  /\ last.op = "infer" => Run = CreateRun(tokenizer, model, Args.sentences)
  /\ (Encoded /\ Run.fwd # <<>>) =>
       /\ Run.fwd[1].token_type_ids.shape = Run.fwd[1].token_ids.shape
       /\ \A b \in 1..Len(Run.fwd[1].token_type_ids.v) :
            \A q \in 1..Len(Run.fwd[1].token_type_ids.v[b]) :
              Run.fwd[1].token_type_ids.v[b][q] = 0
  /\ (Encoded /\ Len(Args.sentences) = 1 /\ Run.status = "ok") =>
       Run.value.shape = <<1, Hidden>>

\* A batch of one sentence was encoded to a finite embedding.
C6_Witness ==
  /\ last.op = "create" /\ Len(Args.sentences) = 1 /\ Run.status = "ok"
  /\ Run.value.v[1][Hidden].k = "num"
  /\ Run.value.v[1][Hidden].n # 0

\* C7: once load has returned, the store is the matrix load put there, whatever
\* calls were made since, successful or failing.
C7_StoreReadOnly == embeddings = loaded

\* A call returned a ranking shorter than the store it ranked.
C7_Witness ==
  /\ Scored /\ Run.status = "ok" /\ HasRows
  /\ Len(Run.value) < NRows
  /\ embeddings = ExampleStore

\* Exactly: the squares of the row's elements n / sqrt(d2) sum to 1.
RECURSIVE ProdOf(_)
ProdOf(xs) == IF xs = <<>> THEN 1 ELSE Head(xs) * ProdOf(Tail(xs))
UnitNorm(row) ==
  /\ \A h \in 1..Len(row) : row[h].k = "num"
  /\ LET P == ProdOf([h \in 1..Len(row) |-> row[h].d2])
     IN SumOf([h \in 1..Len(row) |-> row[h].n * row[h].n * (P \div row[h].d2)]) = P

\* C8: every row of an embedding that infer_sentence_embedding or
\* create_embeddings returns has L2 norm 1.
C8_RowsHaveUnitNorm ==
  (Encoded /\ Run.status = "ok") =>
    \A b \in 1..Len(Run.value.v) : UnitNorm(Run.value.v[b])

\* C9: rows with equal scores are returned in ascending index order.
C9_TiesKeepIndexOrder ==
  (Scored /\ Run.status = "ok") =>
    \A i, j \in 1..Len(Run.value) :
      (i < j /\ ~Run.value[i][2].nan /\ ~Run.value[j][2].nan
         /\ Run.value[i][2].x = Run.value[j][2].x)
        => Run.value[i][1] < Run.value[j][1]

\* A ranking came back with three rows of one score in it.
C9_Witness ==
  /\ Scored /\ Run.status = "ok" /\ Len(Run.value) >= 3
  /\ Run.value[1][2] = Run.value[2][2]
  /\ Run.value[2][2] = Run.value[3][2]

\* C10: a failure of a collaborator or of a stage comes back to the caller as a
\* returned failure at once: the stage that failed is the last one entered, no
\* value is returned and the process is not aborted; load included.
C10_FailuresAreReturned ==
  Run.failed # "" =>
    /\ Run.status = "err"
    /\ Run.value = <<>>
    /\ Run.failed = Run.stages[Len(Run.stages)]
    /\ phase # "aborted"

====
